---- MODULE Spec2Model ----
(***************************************************************************)
(* Model of the DFU protocol engine of solo/dfu.py: the address            *)
(* translator, the status query with its stall retries, the polling loop,  *)
(* the erase / write / read / detach operations of DFUDevice and the       *)
(* discovery functions.                                                    *)
(*                                                                         *)
(* The driver is single threaded and synchronous.  pc is the position of   *)
(* the one thread, stack the return positions of the calls in progress.    *)
(* The USB device is the environment: every control transfer is one step   *)
(* whose outcome (a response, a stall, another transport error) is chosen  *)
(* by the device.                                                          *)
(***************************************************************************)
EXTENDS Integers, Sequences, FiniteSets, TLC

VARIABLES
    pc,         \* position of the driver thread
    stack,      \* return positions of the calls in progress, innermost first
    op,         \* the public operation the caller started ("none" when idle)
    args,       \* its arguments
    result,     \* "none" while running, "ok" on normal return, else the exception
    retval,     \* value returned by the operation on normal return
    last,       \* DFU.status returned by the most recent get_status()
    tries,      \* get_status: local variable tries
    gsXfers,    \* history: GETSTATUS transfers issued by the current get_status()
    gsSleeps,   \* history: time.sleep(0.01) calls of the current get_status()
    bosTarget,  \* block_on_state: parameter state
    polls,      \* history: statuses returned to the current block_on_state()
    sleeps,     \* history: durations (microseconds) slept by block_on_state()
    xfer,       \* the DNLOAD / UPLOAD / CLRSTATUS transfer about to be issued
    log,        \* history: transfers completed by the current operation
    blk,        \* write_page / read_mem: local addr after addr2block
    fi,         \* find: loop index i
    enumCount,  \* history: calls of usb.core.find made by find()
    findSleeps, \* history: time.sleep(0.25) calls made by find()
    allZero,    \* history: every enumeration so far had no eligible device
    sawMulti,   \* history: some enumeration had more than one eligible device
    configured, \* history: <<i, device>>: set_configuration() called in iteration i
    lastEnum,   \* history: what the latest usb.core.find of DFUDevice.find returned
    picked,     \* history: the device the latest DFUDevice.find went on to bind
    faDevs,     \* find_all: what usb.core.find returned
    fai,        \* find_all: number of devices the comprehension has done
    sessions,   \* find_all: the list built so far
    tBlock,     \* translator exercise: addr2block(address, size)
    tBack,      \* translator exercise: block2addr(tBlock, size)
    mem,        \* device: the 16 bytes stored at each base address
    ptr,        \* device: address pointer the block numbers are relative to
    pend,       \* device: address of a set-address command not yet in effect
    uploads,    \* history: the bytes returned by each upload() so far
    m,          \* write_option_bytes: parameter m; prepare_options_bytes_detach: local m
    wobCalls,   \* history: the m of every write_option_bytes() call so far
    swallowed,  \* history: exceptions caught by write_option_bytes
    fault,      \* history: the transfer that failed with a non-stall USBError
    ptr0        \* history: the device's address pointer when the operation began

vars == <<pc, stack, op, args, result, retval, last, tries, gsXfers, gsSleeps,
          bosTarget, polls, sleeps, xfer, log, blk, fi, enumCount, findSleeps,
          allZero, sawMulti, configured, lastEnum, picked, faDevs, fai,
          sessions, tBlock, tBack, mem, ptr,
          pend, uploads,
          m, wobCalls, swallowed, fault, ptr0>>

(***************************************************************************)
(* Bounds of the model.                                                    *)
(***************************************************************************)
\* block_on_state: the device reports the awaited state at most MaxPolls times
MaxPolls == 2
\* find: the caller passes attempts in 0..MaxAttempts
MaxAttempts == 3
\* an enumeration shows at most MaxDevs devices
MaxDevs == 2
\* translator exercise: offsets 0..MaxOffset from the flash base, sizes 1..MaxSize
MaxOffset == 6
MaxSize == 3

(***************************************************************************)
(* DFU states (commands.DFU.state) the driver meets.                       *)
(***************************************************************************)
IDLE == "IDLE"
DOWNLOAD_BUSY == "DOWNLOAD_BUSY"
DOWNLOAD_IDLE == "DOWNLOAD_IDLE"
UPLOAD_IDLE == "UPLOAD_IDLE"
ERROR == "ERROR"
States == {IDLE, DOWNLOAD_BUSY, DOWNLOAD_IDLE, UPLOAD_IDLE, ERROR}

\* poll timeouts (milliseconds) the device reports
Timeouts == {1, 5}

\* decoded status responses: DFU.status(s) with its fields state and timeout
Statuses == [state : States, timeout : Timeouts]
NoStatus == [state |-> "none", timeout |-> 0]

\* states in which write_page and detach go on to their DNLOAD
DownloadValid == {IDLE, DOWNLOAD_IDLE}
\* states in which read_mem goes on to its UPLOAD
UploadValid == {IDLE, UPLOAD_IDLE}

(***************************************************************************)
(* Address translator.                                                     *)
(***************************************************************************)
FlashBase == 134217728      \* 0x08000000

\* x // y of Python for y > 0 (floor division)
FloorDiv(x, y) == x \div y

\* variant: the quotient rounded up instead of down
addr2blockRoundUp(addr, size) == FloorDiv((addr - FlashBase) + (size - 1), size) + 2

\* variant: the two reserved blocks not skipped
addr2blockNoOffset(addr, size) == FloorDiv(addr - FlashBase, size)

addr2block(addr, size) == FloorDiv(addr - FlashBase, size) + 2

\* variant: only block 0 taken as reserved
block2addrOffByOne(addr, size) == ((addr - 1) * size) + FlashBase

block2addr(addr, size) == ((addr - 2) * size) + FlashBase

\* (a >> (8*i)) & 0xFF for a >= 0
ByteOf(a, i) == (a \div (256 ^ i)) % 256

\* variant: the address bytes most significant first
ErasePayloadBigEndian(a) ==
    <<65, ByteOf(a, 3), ByteOf(a, 2), ByteOf(a, 1), ByteOf(a, 0)>>

\* payload built by erase(a)
ErasePayload(a) == <<65, ByteOf(a, 0), ByteOf(a, 1), ByteOf(a, 2), ByteOf(a, 3)>>


\* variant: the bytes not masked with 0xFF
addr2listUnmasked(a) == <<a, a \div 256, a \div 65536, a \div 16777216>>

\* [a & 0xFF, (a >> 8) & 0xFF, (a >> 16) & 0xFF, (a >> 24) & 0xFF]
addr2list(a) == <<ByteOf(a, 0), ByteOf(a, 1), ByteOf(a, 2), ByteOf(a, 3)>>

\* variant: the set-address command without its address
SetAddrPayloadBare(addr) == <<33>>

\* payload built by set_addr(addr)
SetAddrPayload(addr) == <<33>> \o addr2list(addr)

\* payload of mass_erase
MassErasePayload == <<65>>

(***************************************************************************)
(* Exceptions.                                                             *)
(***************************************************************************)
StateError == "RuntimeError: not in correct state"
StatusError == "RuntimeError: Failed to get status from DFU."
AssertionError == "AssertionError"
USBError == "USBError"
ZeroDivisionError == "ZeroDivisionError"

(***************************************************************************)
(* Calls, returns and raises.                                              *)
(***************************************************************************)

\* call a function whose first step is itself a call: two frames are pushed
Call2(entry, inner, ret) ==
    /\ pc' = entry
    /\ stack' = <<inner, ret>> \o stack

\* call a function whose first position is entry; come back at ret
Call(entry, ret) ==
    /\ pc' = entry
    /\ stack' = <<ret>> \o stack

\* return from the innermost call
Return ==
    /\ pc' = Head(stack)
    /\ stack' = Tail(stack)

\* return v: to the caller inside the operation, or out of the operation
Finish(v) ==
    /\ retval' = v
    /\ IF stack = <<>>
       THEN /\ pc' = "done"
            /\ stack' = <<>>
            /\ result' = "ok"
       ELSE /\ Return
            /\ result' = result

\* exceptions that are instances of OSError (usb.core.USBError is an IOError)
OSErrors == {USBError}

\* return positions pushed inside the try block of write_option_bytes
TryFrames == {"wob_poll", "wob_ret"}

\* indices of the frames of stack that lie inside a try block
TryDepths == {i \in 1..Len(stack) : stack[i] \in TryFrames}

\* variant: the handler catches every exception
HandledAll(e) == TryDepths # {}

\* except OSError of write_option_bytes: is e raised under it and caught by it
Handled(e) == e \in OSErrors /\ TryDepths # {}

\* raise e: unwind to the innermost handler that catches it (retval carries
\* e to the handler), else the operation ends with it
Raise(e) ==
    IF Handled(e)
    THEN LET d == CHOOSE i \in TryDepths : \A j \in TryDepths : i <= j
         IN  /\ pc' = "wob_except"
             /\ stack' = SubSeq(stack, d + 1, Len(stack))
             /\ result' = result
             /\ retval' = e
    ELSE /\ pc' = "done"
         /\ stack' = <<>>
         /\ result' = e
         /\ retval' = "none"

None == "None"

\* no usb.core.Device (dev is None)
NoDevice == [serial |-> None, alts |-> <<>>]

NoArgs == [addr |-> 0, data |-> <<>>, size |-> 0, target |-> "none",
           attempts |-> 0, ser |-> None, raw |-> NoDevice, alt |-> 0]

Entry(req, block, data, state) ==
    [req |-> req, block |-> block, data |-> data, state |-> state]

NoXfer == [req |-> "none", block |-> 0, data |-> <<>>]

findVars == <<fi, enumCount, findSleeps, allZero, sawMulti, configured,
              lastEnum, picked, faDevs, fai, sessions>>

\* no enumeration made yet
NoEnum == [isNone |-> TRUE, list |-> <<>>]
gsVars == <<tries, gsXfers, gsSleeps>>
bosVars == <<bosTarget, polls, sleeps>>
trVars == <<tBlock, tBack>>
devVars == <<mem, ptr, pend, uploads>>
obVars == <<m, wobCalls, swallowed, fault, ptr0>>

\* address of the option bytes
OptionAddr == 536836096     \* 0x1FFF7800

\* a line of sixteen bytes
Line(b) == [i \in 1..16 |-> b]

\* the device before the operation: erased flash, pointer at the flash base
InitMem == [a \in {FlashBase, OptionAddr} |-> Line(255)]
NoPending == 0 - 1

\* the address in a set-address payload [0x21, b0, b1, b2, b3]
PayloadAddr(d) == d[2] + (d[3] * 256) + (d[4] * 65536) + (d[5] * 16777216)

\* a DNLOAD of block 0 that carries the set-address command
IsSetAddr(x) ==
    x.req = "DNLOAD" /\ x.block = 0 /\ Len(x.data) = 5 /\ x.data[1] = 33

\* wValue of the setup packet: the low sixteen bits of block
WireBlock(b) == b % 65536

\* block 2 is the line the address pointer points at
IsLineWrite(x) ==
    /\ x.req = "DNLOAD"
    /\ WireBlock(x.block) = 2
    /\ Len(x.data) = 16
    /\ ptr \in DOMAIN mem

IsLineRead(x) ==
    /\ x.req = "UPLOAD"
    /\ WireBlock(x.block) = 2
    /\ x.data = <<16>>
    /\ ptr \in DOMAIN mem

\* bytes the device returns for an UPLOAD of x.data[1] bytes
UploadBytes(x) ==
    IF IsLineRead(x) THEN mem[ptr] ELSE [i \in 1..x.data[1] |-> 255]
NoFault == [req |-> "none", at |-> 0, inTry |-> FALSE]

Init ==
    /\ pc = "idle"
    /\ stack = <<>>
    /\ op = "none"
    /\ args = NoArgs
    /\ result = "none"
    /\ retval = "none"
    /\ last = NoStatus
    /\ tries = 0
    /\ gsXfers = 0
    /\ gsSleeps = 0
    /\ bosTarget = "none"
    /\ polls = <<>>
    /\ sleeps = <<>>
    /\ xfer = NoXfer
    /\ log = <<>>
    /\ blk = 0
    /\ fi = 0
    /\ enumCount = 0
    /\ findSleeps = 0
    /\ allZero = TRUE
    /\ sawMulti = FALSE
    /\ configured = {}
    /\ tBlock = 0
    /\ lastEnum = NoEnum
    /\ picked = NoDevice
    /\ tBack = 0
    /\ faDevs = NoEnum
    /\ fai = 0
    /\ sessions = <<>>
    /\ mem = InitMem
    /\ ptr = FlashBase
    /\ pend = NoPending
    /\ uploads = <<>>
    /\ m = <<>>
    /\ wobCalls = <<>>
    /\ swallowed = <<>>
    /\ fault = NoFault
    /\ ptr0 = FlashBase

(***************************************************************************)
(* get_status (dfu.py 109-126).                                            *)
(***************************************************************************)
\* variant: one retry more
TriesInitOneMore == 3 + 1

\* tries = 3
TriesInit == 3

\* enter get_status and come back at ret
CallGetStatus(ret) ==
    /\ Call("gs_xfer", ret)
    /\ tries' = TriesInit
    /\ gsXfers' = 0
    /\ gsSleeps' = 0

\* the device may report the awaited state to block_on_state only MaxPolls times
PollAllowed(s) ==
    ~(Head(stack) = "bos_loop" /\ s.state = bosTarget
        /\ Len(sleeps) >= MaxPolls)

\* log keeps every transfer of the simple operations and the DNLOAD and
\* UPLOAD transfers of the operations composed of them
Logged(req) ==
    \/ op \notin {"write_option_bytes", "prepare_options_bytes_detach"}
    \/ req \in {"DNLOAD", "UPLOAD"}

\* the record of a transfer that fails now with a non-stall USBError
Fault(req) == [req |-> req, at |-> Len(log), inTry |-> TryDepths # {}]

\* the GETSTATUS transfer succeeds: break; a set-address command takes effect
GetStatusOk ==
    /\ pc = "gs_xfer"
    /\ \E s \in Statuses :
        /\ PollAllowed(s)
        /\ last' = s
        /\ log' = IF Logged("GETSTATUS")
                  THEN Append(log, Entry("GETSTATUS", 0, <<>>, s.state))
                  ELSE log
    /\ gsXfers' = gsXfers + 1
    /\ pc' = "gs_break"
    /\ ptr' = IF pend # NoPending THEN pend ELSE ptr
    /\ pend' = NoPending
    /\ UNCHANGED <<stack, op, args, result, retval, tries, gsSleeps, bosVars,
                   xfer, blk, findVars, trVars, mem, uploads, obVars>>

\* return DFU.status(s); the locals of the call are gone
GetStatusReturn ==
    /\ pc = "gs_break"
    /\ Return
    /\ tries' = 0
    /\ gsXfers' = 0
    /\ gsSleeps' = 0
    /\ UNCHANGED <<op, args, result, retval, last, bosVars, xfer, log, blk,
                   findVars, trVars, devVars, obVars>>

\* the transfer stalls (EPIPE) and tries > 0: count down, sleep, loop
GetStatusStallRetry ==
    /\ pc = "gs_xfer"
    /\ tries > 0
    /\ tries' = tries - 1
    /\ gsXfers' = gsXfers + 1
    /\ gsSleeps' = gsSleeps + 1
    /\ UNCHANGED <<pc, stack, op, args, result, retval, last, bosVars, xfer,
                   log, blk, findVars, trVars, devVars, obVars>>

\* the transfer stalls (EPIPE) and tries = 0: raise RuntimeError
GetStatusStallFatal ==
    /\ pc = "gs_xfer"
    /\ ~(tries > 0)
    /\ gsXfers' = gsXfers + 1
    /\ Raise(StatusError)
    /\ UNCHANGED <<op, args, last, tries, gsSleeps, bosVars, xfer, log, blk,
                   findVars, trVars, devVars, obVars>>

\* the transfer fails with a USBError that is not EPIPE: re-raised
GetStatusOtherError ==
    /\ pc = "gs_xfer"
    /\ gsXfers' = gsXfers + 1
    /\ Raise(USBError)
    /\ fault' = Fault("GETSTATUS")
    /\ UNCHANGED <<op, args, last, tries, gsSleeps, bosVars, xfer, log, blk,
                   findVars, trVars, devVars, m, wobCalls, swallowed, ptr0>>

(***************************************************************************)
(* clear_status, dnload, upload (dfu.py 131-148): one control transfer.    *)
(***************************************************************************)
CallClearStatus(ret) ==
    /\ Call("clr_xfer", ret)
    /\ xfer' = [req |-> "CLRSTATUS", block |-> 0, data |-> <<>>]

CallDnload(block, data, ret) ==
    /\ Call("dn_xfer", ret)
    /\ xfer' = [req |-> "DNLOAD", block |-> block, data |-> data]

CallUpload(block, size, ret) ==
    /\ Call("up_xfer", ret)
    /\ xfer' = [req |-> "UPLOAD", block |-> block, data |-> <<size>>]

\* the transfer of clear_status / dnload / upload succeeds
TransferOk ==
    /\ pc \in {"clr_xfer", "dn_xfer", "up_xfer"}
    /\ log' = IF Logged(xfer.req)
              THEN Append(log, Entry(xfer.req, xfer.block, xfer.data, "none"))
              ELSE log
    /\ xfer' = NoXfer
    /\ Return
    /\ mem' = IF IsLineWrite(xfer) THEN [mem EXCEPT ![ptr] = xfer.data] ELSE mem
    /\ pend' = IF IsSetAddr(xfer) THEN PayloadAddr(xfer.data) ELSE pend
    /\ uploads' = IF xfer.req = "UPLOAD"
                  THEN Append(uploads, UploadBytes(xfer))
                  ELSE uploads
    /\ UNCHANGED <<op, args, result, retval, last, gsVars, bosVars, blk,
                   findVars, trVars, ptr, obVars>>


\* variant: the failed transfer is issued again
TransferErrorRetried ==
    /\ pc \in {"clr_xfer", "dn_xfer", "up_xfer"}
    /\ fault' = Fault(xfer.req)
    /\ UNCHANGED <<pc, stack, result, retval, xfer, op, args, last, gsVars,
                   bosVars, log, blk, findVars, trVars, devVars, m, wobCalls,
                   swallowed, ptr0>>

\* the transfer fails with a USBError; the device may have taken the data of
\* a write before it reported the failure
TransferError ==
    /\ pc \in {"clr_xfer", "dn_xfer", "up_xfer"}
    /\ xfer' = NoXfer
    /\ Raise(USBError)
    /\ fault' = Fault(xfer.req)
    /\ mem' \in IF IsLineWrite(xfer)
                THEN {mem, [mem EXCEPT ![ptr] = xfer.data]}
                ELSE {mem}
    /\ UNCHANGED <<op, args, last, gsVars, bosVars, log, blk, findVars, trVars,
                   ptr, pend, uploads, m, wobCalls, swallowed, ptr0>>

(***************************************************************************)
(* block_on_state (dfu.py 187-191).                                        *)
(***************************************************************************)
\* variant: a fixed one millisecond sleep
PollSleepFixed(s) == 1000

\* time.sleep(s.timeout / 1000.0), in microseconds
PollSleepUs(s) == s.timeout * 1000

\* s = self.get_status()
CallBlockOnState(state, ret) ==
    /\ bosTarget' = state
    /\ polls' = <<>>
    /\ sleeps' = <<>>
    /\ pc' = "gs_xfer"
    /\ stack' = <<"bos_loop", ret>> \o stack
    /\ tries' = TriesInit
    /\ gsXfers' = 0
    /\ gsSleeps' = 0


\* variant: the loop gives up after the first sleep
BlockOnStateLoopCapped ==
    /\ pc = "bos_loop"
    /\ polls' = Append(polls, last)
    /\ IF last.state = bosTarget /\ Len(sleeps) < 1
       THEN /\ sleeps' = Append(sleeps, PollSleepUs(last))
            /\ CallGetStatus("bos_loop")
       ELSE /\ sleeps' = sleeps
            /\ pc' = "bos_exit"
            /\ UNCHANGED <<stack, gsVars>>
    /\ UNCHANGED <<op, args, result, retval, last, bosTarget, xfer, log, blk,
                   findVars, trVars, devVars, obVars>>

\* while s.state == state: sleep, s = self.get_status()
BlockOnStateLoop ==
    /\ pc = "bos_loop"
    /\ polls' = Append(polls, last)
    /\ IF last.state = bosTarget
       THEN /\ sleeps' = Append(sleeps, PollSleepUs(last))
            /\ CallGetStatus("bos_loop")
       ELSE /\ sleeps' = sleeps
            /\ pc' = "bos_exit"
            /\ UNCHANGED <<stack, gsVars>>
    /\ UNCHANGED <<op, args, result, retval, last, bosTarget, xfer, log, blk,
                   findVars, trVars, devVars, obVars>>

\* the loop has ended: return; the locals of the call are gone
BlockOnStateReturn ==
    /\ pc = "bos_exit"
    /\ Return
    /\ bosTarget' = "none"
    /\ polls' = <<>>
    /\ sleeps' = <<>>
    /\ UNCHANGED <<op, args, result, retval, last, gsVars, xfer, log, blk,
                   findVars, trVars, devVars, obVars>>

(***************************************************************************)
(* The caller starts a public operation of the session.                    *)
(***************************************************************************)
\* addresses the caller passes to write_page, read_mem and erase
Addrs == {0, FlashBase, FlashBase + 2048, FlashBase + 2049}
\* data the caller passes to write_page
Datas == {<<>>, <<7>>, <<7, 9>>}
\* sizes the caller passes to read_mem
Sizes == {0, 1, 2048}
\* states the caller passes to block_on_state
Targets == {DOWNLOAD_BUSY, IDLE}

Begin(name, a) ==
    /\ pc = "idle"
    /\ op' = name
    /\ args' = a
    /\ UNCHANGED <<result, retval, last, bosVars, log, findVars, trVars, devVars, obVars>>

\* get_status() called by the caller
GetStatusCall ==
    /\ Begin("get_status", NoArgs)
    /\ CallGetStatus("gs_ret")
    /\ UNCHANGED <<xfer, blk>>

\* the caller has the status
GetStatusDone ==
    /\ pc = "gs_ret"
    /\ Finish(last)
    /\ UNCHANGED <<op, args, last, gsVars, bosVars, xfer, log, blk, findVars,
                   trVars, devVars, obVars>>

\* block_on_state(state) called by the caller
BlockOnStateCall ==
    /\ pc = "idle"
    /\ op' = "block_on_state"
    /\ \E t \in Targets :
        /\ args' = [NoArgs EXCEPT !.target = t]
        /\ CallBlockOnState(t, "bos_ret")
    /\ UNCHANGED <<result, retval, last, xfer, log, blk, findVars, trVars, devVars, obVars>>

\* the caller's block_on_state has returned
BlockOnStateDone ==
    /\ pc = "bos_ret"
    /\ Finish("None")
    /\ UNCHANGED <<op, args, last, gsVars, bosVars, xfer, log, blk, findVars,
                   trVars, devVars, obVars>>

(***************************************************************************)
(* erase (dfu.py 150-152).                                                 *)
(***************************************************************************)
(***************************************************************************)
(* set_addr (dfu.py 142-144).                                              *)
(***************************************************************************)
\* addresses around the byte boundaries of a 32-bit value, the flash base and
\* the option bytes
PayloadBases ==
    {0, 255, 65535, 16777215, FlashBase, OptionAddr, 2147483647 - MaxOffset}

\* addresses the caller passes to set_addr and erase
PayloadAddrs == {b + o : b \in PayloadBases, o \in 0..MaxOffset}

\* self.dnload(0x0, [0x21] + DFUDevice.addr2list(addr))
SetAddrCall ==
    /\ \E a \in PayloadAddrs :
        /\ Begin("set_addr", [NoArgs EXCEPT !.addr = a])
        /\ CallDnload(0, SetAddrPayload(a), "sa_ret")
    /\ UNCHANGED <<gsVars, blk>>

\* return the value of dnload
SetAddrReturn ==
    /\ pc = "sa_ret"
    /\ Finish("None")
    /\ UNCHANGED <<op, args, last, gsVars, bosVars, xfer, log, blk, findVars,
                   trVars, devVars, obVars>>

(***************************************************************************)
(* erase (dfu.py 150-152).                                                 *)
(***************************************************************************)

\* d = [0x41, ...]; self.dnload(0x0, d)
EraseCall ==
    /\ \E a \in (Addrs \ {0}) \cup PayloadAddrs :
        /\ Begin("erase", [NoArgs EXCEPT !.addr = a])
        /\ CallDnload(0, ErasePayload(a), "er_ret")
    /\ UNCHANGED <<gsVars, blk>>

\* return the value of dnload
EraseReturn ==
    /\ pc = "er_ret"
    /\ Finish("None")
    /\ UNCHANGED <<op, args, last, gsVars, bosVars, xfer, log, blk, findVars,
                   trVars, devVars, obVars>>

(***************************************************************************)
(* mass_erase (dfu.py 154-160).                                            *)
(***************************************************************************)
\* self.dnload(0x0, [0x41])
MassEraseCall ==
    /\ Begin("mass_erase", NoArgs)
    /\ CallDnload(0, MassErasePayload, "me_block")
    /\ UNCHANGED <<gsVars, blk>>

\* self.block_on_state(DFU.state.DOWNLOAD_BUSY)
MassEraseBlock ==
    /\ pc = "me_block"
    /\ CallBlockOnState(DOWNLOAD_BUSY, "me_state")
    /\ UNCHANGED <<op, args, result, retval, last, xfer, log, blk, findVars,
                   trVars, devVars, obVars>>

\* self.state() of the assert
MassEraseState ==
    /\ pc = "me_state"
    /\ CallGetStatus("me_assert")
    /\ UNCHANGED <<op, args, result, retval, last, bosVars, xfer, log, blk,
                   findVars, trVars, devVars, obVars>>

\* assert DFU.state.DOWNLOAD_IDLE == self.state()
MassEraseAssert ==
    /\ pc = "me_assert"
    /\ IF DOWNLOAD_IDLE = last.state
       THEN Finish("None")
       ELSE Raise(AssertionError)
    /\ UNCHANGED <<op, args, last, gsVars, bosVars, xfer, log, blk, findVars,
                   trVars, devVars, obVars>>

(***************************************************************************)
(* write_page (dfu.py 162-174).                                            *)
(***************************************************************************)
\* first self.state() of line 163
WritePageCall ==
    /\ \E a \in Addrs, d \in Datas :
        Begin("write_page", [NoArgs EXCEPT !.addr = a, !.data = d])
    /\ CallGetStatus("wp_check1")
    /\ UNCHANGED <<xfer, blk>>

\* variant: the status cleared only in state ERROR
WritePageClearOnError ==
    /\ pc = "wp_check1"
    /\ IF last.state = ERROR
       THEN /\ CallClearStatus("wp_clear2")
            /\ UNCHANGED gsVars
       ELSE /\ CallGetStatus("wp_check2")
            /\ UNCHANGED xfer
    /\ UNCHANGED <<op, args, result, retval, last, bosVars, log, blk,
                   findVars, trVars, devVars, obVars>>

\* if self.state() not in (IDLE, DOWNLOAD_IDLE): first clear_status()
WritePageCheck1 ==
    /\ pc = "wp_check1"
    /\ IF last.state \notin DownloadValid
       THEN /\ CallClearStatus("wp_clear2")
            /\ UNCHANGED gsVars
       ELSE /\ CallGetStatus("wp_check2")
            /\ UNCHANGED xfer
    /\ UNCHANGED <<op, args, result, retval, last, bosVars, log, blk,
                   findVars, trVars, devVars, obVars>>

\* second clear_status()
WritePageClear2 ==
    /\ pc = "wp_clear2"
    /\ CallClearStatus("wp_state2")
    /\ UNCHANGED <<op, args, result, retval, last, gsVars, bosVars, log, blk,
                   findVars, trVars, devVars, obVars>>

\* self.state() of line 166
WritePageState2 ==
    /\ pc = "wp_state2"
    /\ CallGetStatus("wp_check2")
    /\ UNCHANGED <<op, args, result, retval, last, bosVars, xfer, log, blk,
                   findVars, trVars, devVars, obVars>>

\* variant: the second state check dropped
WritePageNoCheck2 ==
    /\ pc = "wp_check2"
    /\ IF Len(args.data) = 0
       THEN /\ Raise(ZeroDivisionError)
            /\ UNCHANGED <<xfer, blk>>
       ELSE /\ blk' = addr2block(args.addr, Len(args.data))
            /\ CallDnload(blk', args.data, "wp_block")
            /\ UNCHANGED <<result, retval>>
    /\ UNCHANGED <<op, args, last, gsVars, bosVars, log, findVars, trVars, devVars, obVars>>

\* if still not valid: raise; else addr2block and dnload
WritePageCheck2 ==
    /\ pc = "wp_check2"
    /\ IF last.state \notin DownloadValid
       THEN /\ Raise(StateError)
            /\ UNCHANGED <<xfer, blk>>
       ELSE IF Len(args.data) = 0
       THEN /\ Raise(ZeroDivisionError)
            /\ UNCHANGED <<xfer, blk>>
       ELSE /\ blk' = addr2block(args.addr, Len(args.data))
            /\ CallDnload(blk', args.data, "wp_block")
            /\ UNCHANGED <<result, retval>>
    /\ UNCHANGED <<op, args, last, gsVars, bosVars, log, findVars, trVars, devVars, obVars>>

\* self.block_on_state(DFU.state.DOWNLOAD_BUSY)
WritePageBlock ==
    /\ pc = "wp_block"
    /\ CallBlockOnState(DOWNLOAD_BUSY, "wp_state3")
    /\ UNCHANGED <<op, args, result, retval, last, xfer, log, blk, findVars,
                   trVars, devVars, obVars>>

\* self.state() of the assert
WritePageState3 ==
    /\ pc = "wp_state3"
    /\ CallGetStatus("wp_assert")
    /\ UNCHANGED <<op, args, result, retval, last, bosVars, xfer, log, blk,
                   findVars, trVars, devVars, obVars>>

\* variant: the assertion stripped
WritePageNoAssert ==
    /\ pc = "wp_assert"
    /\ Finish("None")
    /\ UNCHANGED <<op, args, last, gsVars, bosVars, xfer, log, blk, findVars,
                   trVars, devVars, obVars>>

\* assert DFU.state.DOWNLOAD_IDLE == self.state()
WritePageAssert ==
    /\ pc = "wp_assert"
    /\ IF DOWNLOAD_IDLE = last.state
       THEN Finish("None")
       ELSE Raise(AssertionError)
    /\ UNCHANGED <<op, args, last, gsVars, bosVars, xfer, log, blk, findVars,
                   trVars, devVars, obVars>>

(***************************************************************************)
(* read_mem (dfu.py 176-185).                                              *)
(***************************************************************************)
\* addr = addr2block(addr, size); first self.state() of line 179
ReadMemCall ==
    /\ \E a \in Addrs, n \in Sizes :
        /\ Begin("read_mem", [NoArgs EXCEPT !.addr = a, !.size = n])
        /\ n # 0
    /\ blk' = addr2block(args'.addr, args'.size)
    /\ CallGetStatus("rm_check1")
    /\ UNCHANGED xfer

\* size = 0: addr //= size raises before any transfer
ReadMemZeroSize ==
    /\ pc = "idle"
    /\ op' = "read_mem"
    /\ \E a \in Addrs : args' = [NoArgs EXCEPT !.addr = a, !.size = 0]
    /\ Raise(ZeroDivisionError)
    /\ UNCHANGED <<last, gsVars, bosVars, xfer, log, blk, findVars, trVars, devVars, obVars>>

\* if self.state() not in (IDLE, UPLOAD_IDLE): first clear_status()
ReadMemCheck1 ==
    /\ pc = "rm_check1"
    /\ IF last.state \notin UploadValid
       THEN /\ CallClearStatus("rm_clear2")
            /\ UNCHANGED gsVars
       ELSE /\ CallGetStatus("rm_check2")
            /\ UNCHANGED xfer
    /\ UNCHANGED <<op, args, result, retval, last, bosVars, log, blk,
                   findVars, trVars, devVars, obVars>>

\* second clear_status()
ReadMemClear2 ==
    /\ pc = "rm_clear2"
    /\ CallClearStatus("rm_state2")
    /\ UNCHANGED <<op, args, result, retval, last, gsVars, bosVars, log, blk,
                   findVars, trVars, devVars, obVars>>

\* self.state() of line 182
ReadMemState2 ==
    /\ pc = "rm_state2"
    /\ CallGetStatus("rm_check2")
    /\ UNCHANGED <<op, args, result, retval, last, bosVars, xfer, log, blk,
                   findVars, trVars, devVars, obVars>>

\* if still not valid: raise; else upload
ReadMemCheck2 ==
    /\ pc = "rm_check2"
    /\ IF last.state \notin UploadValid
       THEN /\ Raise(StateError)
            /\ UNCHANGED xfer
       ELSE /\ CallUpload(blk, args.size, "rm_ret")
            /\ UNCHANGED <<result, retval>>
    /\ UNCHANGED <<op, args, last, gsVars, bosVars, log, blk, findVars, trVars, devVars, obVars>>

\* return the value of upload
ReadMemReturn ==
    /\ pc = "rm_ret"
    /\ Finish(uploads[Len(uploads)])
    /\ UNCHANGED <<op, args, last, gsVars, bosVars, xfer, log, blk, findVars,
                   trVars, devVars, obVars>>

\* read_mem(addr, size) called by another method: come back at ret
CallReadMem(addr, size, ret) ==
    /\ args' = [args EXCEPT !.addr = addr, !.size = size]
    /\ blk' = addr2block(addr, size)
    /\ Call2("gs_xfer", "rm_check1", ret)
    /\ tries' = TriesInit
    /\ gsXfers' = 0
    /\ gsSleeps' = 0

(***************************************************************************)
(* read_option_bytes (dfu.py 193-198).                                     *)
(***************************************************************************)
\* bytes 4-15 of the option bytes
OptionTail == [i \in 1..12 |-> 16 + i]

\* the sixteen option bytes a device may hold: the word with nBOOT0 and
\* nSWBOOT0 in each combination
OptionLines == {<<170, 248, 239, b>> \o OptionTail : b \in {3, 7, 11, 15}}

\* the devices an option-byte operation may meet: the option bytes they hold
\* and where their address pointer is
DeviceMems == {[InitMem EXCEPT ![OptionAddr] = l] : l \in OptionLines}
DevicePtrs == {FlashBase, OptionAddr}

\* read_option_bytes() called by another method: self.set_addr(ptr)
CallReadOptionBytes(ret) ==
    /\ Call2("dn_xfer", "rob_block", ret)
    /\ xfer' = [req |-> "DNLOAD", block |-> 0,
                data |-> SetAddrPayload(OptionAddr)]

\* read_option_bytes() called by the caller
RobCall ==
    /\ pc = "idle"
    /\ op' = "read_option_bytes"
    /\ mem' \in DeviceMems
    /\ ptr' \in DevicePtrs
    /\ ptr0' = ptr'
    /\ CallDnload(0, SetAddrPayload(OptionAddr), "rob_block")
    /\ UNCHANGED <<args, result, retval, last, gsVars, bosVars, log, blk,
                   findVars, trVars, pend, uploads, m, wobCalls, swallowed,
                   fault>>

\* self.block_on_state(DFU.state.DOWNLOAD_BUSY)
RobBlock ==
    /\ pc = "rob_block"
    /\ CallBlockOnState(DOWNLOAD_BUSY, "rob_read")
    /\ UNCHANGED <<op, args, result, retval, last, xfer, log, blk,
                   findVars, trVars, devVars, obVars>>

\* m = self.read_mem(0, 16)
RobRead ==
    /\ pc = "rob_read"
    /\ CallReadMem(0, 16, "rob_ret")
    /\ UNCHANGED <<op, result, retval, last, bosVars, xfer, log,
                   findVars, trVars, devVars, obVars>>

\* return m
RobReturn ==
    /\ pc = "rob_ret"
    /\ Finish(retval)
    /\ UNCHANGED <<op, args, last, gsVars, bosVars, xfer, log, blk, findVars,
                   trVars, devVars, obVars>>

(***************************************************************************)
(* write_option_bytes (dfu.py 200-206).  Its parameter m is the last       *)
(* element of wobCalls; the assignment of the result of write_page to m    *)
(* is a dead store and is left out.                                        *)
(***************************************************************************)
\* write_page(addr, data) called by another method: come back at ret
CallWritePage(addr, data, ret) ==
    /\ args' = [args EXCEPT !.addr = addr, !.data = data]
    /\ Call2("gs_xfer", "wp_check1", ret)
    /\ tries' = TriesInit
    /\ gsXfers' = 0
    /\ gsSleeps' = 0

\* the option bytes of the device write_option_bytes is tried on
WobLine == <<170, 248, 239, 3>> \o OptionTail

\* the m the caller passes: the bytes already present, another word before
\* the same bytes 4-15, other bytes 4-15
WobDatas ==
    {WobLine, <<170, 248, 239, 11>> \o OptionTail,
     <<170, 248, 239, 11>> \o [i \in 1..12 |-> 0]}

\* write_option_bytes(mm) called by another method: come back at ret
CallWriteOptionBytes(mm, ret) ==
    /\ wobCalls' = Append(wobCalls, mm)
    /\ Call("wob_entry", ret)

\* write_option_bytes(m) called by the caller
WobCall ==
    /\ pc = "idle"
    /\ op' = "write_option_bytes"
    /\ mem' = [InitMem EXCEPT ![OptionAddr] = WobLine]
    /\ ptr' \in DevicePtrs
    /\ ptr0' = ptr'
    /\ \E mm \in WobDatas : wobCalls' = <<mm>>
    /\ pc' = "wob_entry"
    /\ UNCHANGED <<stack, args, result, retval, last, gsVars, bosVars, xfer,
                   log, blk, findVars, trVars, pend, uploads, m, swallowed,
                   fault>>

\* self.block_on_state(DFU.state.DOWNLOAD_BUSY) before the try block
WobEntry ==
    /\ pc = "wob_entry"
    /\ CallBlockOnState(DOWNLOAD_BUSY, "wob_write")
    /\ UNCHANGED <<op, args, result, retval, last, xfer, log, blk,
                   findVars, trVars, devVars, obVars>>


\* try: m = self.write_page(0, m)
WobWrite ==
    /\ pc = "wob_write"
    /\ CallWritePage(0, wobCalls[Len(wobCalls)], "wob_poll")
    /\ UNCHANGED <<op, result, retval, last, bosVars, xfer, log, blk,
                   findVars, trVars, devVars, obVars>>

\* self.block_on_state(DFU.state.DOWNLOAD_BUSY) inside the try block
WobPoll ==
    /\ pc = "wob_poll"
    /\ CallBlockOnState(DOWNLOAD_BUSY, "wob_ret")
    /\ UNCHANGED <<op, args, result, retval, last, xfer, log, blk,
                   findVars, trVars, devVars, obVars>>

\* the try block has ended without exception: return None
WobReturn ==
    /\ pc = "wob_ret"
    /\ Finish("None")
    /\ UNCHANGED <<op, args, last, gsVars, bosVars, xfer, log, blk, findVars,
                   trVars, devVars, obVars>>

\* except OSError: print the warning, return None; the locals of the calls
\* the exception has left are gone
WobExcept ==
    /\ pc = "wob_except"
    /\ swallowed' = Append(swallowed, retval)
    /\ Finish("None")
    /\ tries' = 0
    /\ gsXfers' = 0
    /\ gsSleeps' = 0
    /\ bosTarget' = "none"
    /\ polls' = <<>>
    /\ sleeps' = <<>>
    /\ UNCHANGED <<op, args, last, xfer, log, blk, findVars, trVars, devVars,
                   m, wobCalls, fault, ptr0>>

\* read_option_bytes() called right after write_option_bytes(m) has returned,
\* on the same session and device
RobAfterWob ==
    /\ pc = "done"
    /\ op = "write_option_bytes"
    /\ result = "ok"
    /\ op' = "read_option_bytes"
    /\ result' = "none"
    /\ retval' = "none"
    /\ last' = NoStatus
    /\ log' = <<>>
    /\ fault' = NoFault
    /\ CallDnload(0, SetAddrPayload(OptionAddr), "rob_block")
    /\ UNCHANGED <<args, gsVars, bosVars, blk, findVars, trVars, devVars, m,
                   wobCalls, swallowed, ptr0>>

(***************************************************************************)
(* prepare_options_bytes_detach (dfu.py 208-224).                          *)
(***************************************************************************)
\* STM32L4.options: bit masks of the option word
nBOOT0 == 2 ^ 27
nSWBOOT0 == 2 ^ 26

\* struct.unpack("<L", b)[0] of the four bytes b
UnpackLE(b) == b[1] + (b[2] * 256) + (b[3] * 65536) + (b[4] * 16777216)

\* variant: the word packed most significant byte first
PackBE(w) == <<ByteOf(w, 3), ByteOf(w, 2), ByteOf(w, 1), ByteOf(w, 0)>>

\* struct.pack("<L", w)
PackLE(w) == <<ByteOf(w, 0), ByteOf(w, 1), ByteOf(w, 2), ByteOf(w, 3)>>

\* w & bit # 0, for a one-bit mask
HasBit(w, bit) == (w \div bit) % 2 = 1
\* w | bit
OrBit(w, bit) == IF HasBit(w, bit) THEN w ELSE w + bit
\* w & ~bit
AndNotBit(w, bit) == IF HasBit(w, bit) THEN w - bit ELSE w

\* op |= nBOOT0; op &= ~nSWBOOT0
NewOp(oldop) == AndNotBit(OrBit(oldop, nBOOT0), nSWBOOT0)

\* m = self.read_mem(0, 16): the first statement
PbdCall ==
    /\ pc = "idle"
    /\ op' = "prepare_options_bytes_detach"
    /\ mem' \in DeviceMems
    /\ ptr' \in DevicePtrs
    /\ ptr0' = ptr'
    /\ CallReadMem(0, 16, "pbd_rewrite")
    /\ UNCHANGED <<result, retval, last, bosVars, xfer, log, findVars, trVars,
                   pend, uploads, m, wobCalls, swallowed, fault>>

\* self.write_option_bytes(m) with the bytes just read
PbdRewrite ==
    /\ pc = "pbd_rewrite"
    /\ m' = retval
    /\ CallWriteOptionBytes(retval, "pbd_read")
    /\ UNCHANGED <<op, args, result, retval, last, gsVars, bosVars, xfer, log,
                   blk, findVars, trVars, devVars, swallowed, fault, ptr0>>

\* m = self.read_option_bytes()
PbdRead ==
    /\ pc = "pbd_read"
    /\ CallReadOptionBytes("pbd_decide")
    /\ UNCHANGED <<op, args, result, retval, last, gsVars, bosVars, log, blk,
                   findVars, trVars, devVars, obVars>>

\* variant: the word written back whether it changed or not
PbdDecideAlways ==
    /\ pc = "pbd_decide"
    /\ m' = PackLE(NewOp(UnpackLE(SubSeq(retval, 1, 4)))) \o SubSeq(retval, 5, 16)
    /\ CallWriteOptionBytes(m', "pbd_ret")
    /\ UNCHANGED <<op, args, result, retval, last, gsVars, bosVars, xfer, log,
                   blk, findVars, trVars, devVars, swallowed, fault, ptr0>>

\* op from m[:4]; if oldop != op: m = pack(op) + m[4:], write_option_bytes(m)
PbdDecide ==
    /\ pc = "pbd_decide"
    /\ LET oldop == UnpackLE(SubSeq(retval, 1, 4))
       IN  IF oldop # NewOp(oldop)
           THEN /\ m' = PackLE(NewOp(oldop)) \o SubSeq(retval, 5, 16)
                /\ CallWriteOptionBytes(m', "pbd_ret")
                /\ UNCHANGED <<result, retval>>
           ELSE /\ m' = retval
                /\ Finish("None")
                /\ UNCHANGED wobCalls
    /\ UNCHANGED <<op, args, last, gsVars, bosVars, xfer, log, blk, findVars,
                   trVars, devVars, swallowed, fault, ptr0>>

\* the second write_option_bytes has returned: return None
PbdReturn ==
    /\ pc = "pbd_ret"
    /\ Finish("None")
    /\ UNCHANGED <<op, args, last, gsVars, bosVars, xfer, log, blk, findVars,
                   trVars, devVars, obVars>>

(***************************************************************************)
(* detach (dfu.py 226-236).                                                *)
(***************************************************************************)
\* first self.state() of line 227
DetachCall ==
    /\ Begin("detach", NoArgs)
    /\ CallGetStatus("dt_check1")
    /\ UNCHANGED <<xfer, blk>>

\* if self.state() not in (IDLE, DOWNLOAD_IDLE): first clear_status()
DetachCheck1 ==
    /\ pc = "dt_check1"
    /\ IF last.state \notin DownloadValid
       THEN /\ CallClearStatus("dt_clear2")
            /\ UNCHANGED gsVars
       ELSE /\ CallGetStatus("dt_check2")
            /\ UNCHANGED xfer
    /\ UNCHANGED <<op, args, result, retval, last, bosVars, log, blk,
                   findVars, trVars, devVars, obVars>>

\* second clear_status()
DetachClear2 ==
    /\ pc = "dt_clear2"
    /\ CallClearStatus("dt_state2")
    /\ UNCHANGED <<op, args, result, retval, last, gsVars, bosVars, log, blk,
                   findVars, trVars, devVars, obVars>>

\* self.state() of line 230
DetachState2 ==
    /\ pc = "dt_state2"
    /\ CallGetStatus("dt_check2")
    /\ UNCHANGED <<op, args, result, retval, last, bosVars, xfer, log, blk,
                   findVars, trVars, devVars, obVars>>

\* if still not valid: raise; else self.dnload(0x0, [])
DetachCheck2 ==
    /\ pc = "dt_check2"
    /\ IF last.state \notin DownloadValid
       THEN /\ Raise(StateError)
            /\ UNCHANGED xfer
       ELSE /\ CallDnload(0, <<>>, "dt_status")
            /\ UNCHANGED <<result, retval>>
    /\ UNCHANGED <<op, args, last, gsVars, bosVars, log, blk, findVars, trVars, devVars, obVars>>


\* variant: the status polled until the device leaves DOWNLOAD_BUSY
DetachStatusPolls ==
    /\ pc = "dt_status"
    /\ CallBlockOnState(DOWNLOAD_BUSY, "dt_ret")
    /\ UNCHANGED <<op, args, result, retval, last, xfer, log, blk,
                   findVars, trVars, devVars, obVars>>

\* self.get_status() of the return statement
DetachStatus ==
    /\ pc = "dt_status"
    /\ CallGetStatus("dt_ret")
    /\ UNCHANGED <<op, args, result, retval, last, bosVars, xfer, log, blk,
                   findVars, trVars, devVars, obVars>>

\* return self.get_status()
DetachReturn ==
    /\ pc = "dt_ret"
    /\ Finish(last)
    /\ UNCHANGED <<op, args, last, gsVars, bosVars, xfer, log, blk, findVars,
                   trVars, devVars, obVars>>

(***************************************************************************)
(* Discovery: DFUDevice.find (dfu.py 47-87) and find (dfu.py 240-255).     *)
(***************************************************************************)
Serials == {"A", "B"}

\* a device: its serial number string and, per entry of cfg.interfaces(),
\* the alternate settings cfg[(intf_num, alt)] finds
Devices == [serial : Serials, alts : {<<>>, <<{0, 1}>>, <<{0}, {0, 1}>>}]

RECURSIVE SeqsUpTo(_, _)
\* the sequences over S of length at most n
SeqsUpTo(S, n) ==
    IF n = 0 THEN {<<>>}
    ELSE LET R == SeqsUpTo(S, n - 1)
         IN  R \cup {Append(q, x) : q \in {r \in R : Len(r) = n - 1}, x \in S}

\* what usb.core.find(..., find_all=True) may return: None or devices
Enumerations ==
    {[isNone |-> FALSE, list |-> l] : l \in SeqsUpTo(Devices, MaxDevs)}
        \cup {[isNone |-> TRUE, list |-> <<>>]}

RECURSIVE Filter(_, _)
\* [d for d in _devs if ser == usb.util.get_string(d, d.serial_number)]
Filter(devs, ser) ==
    IF devs = <<>> THEN <<>>
    ELSE IF Head(devs).serial = ser
         THEN <<Head(devs)>> \o Filter(Tail(devs), ser)
         ELSE Filter(Tail(devs), ser)


\* variant: the serial number is not compared
EligibleUnfiltered(devs, ser) ==
    IF devs.isNone THEN <<>> ELSE devs.list

\* lines 56-59: the eligible devices of an enumeration
Eligible(devs, ser) ==
    IF devs.isNone THEN <<>>
    ELSE IF ser # None THEN Filter(devs.list, ser) ELSE devs.list

NotFoundError == "RuntimeError: No ST DFU devices found."
NoAltError == "RuntimeError: No ST DFU alternate found."
NonUniqueDeviceError == "NonUniqueDeviceError"
NoDFUFound == "Exception: no DFU found"

\* the exception classes that derive from RuntimeError
NonUniqueDeviceErrorIsRuntimeError == FALSE

RuntimeErrors ==
    {NotFoundError, NoAltError, StateError, StatusError}
        \cup (IF NonUniqueDeviceErrorIsRuntimeError
              THEN {NonUniqueDeviceError} ELSE {})

\* variant: find catches nothing
CaughtNothing(e) == FALSE

\* except RuntimeError of find
CaughtByFind(e) == e \in RuntimeErrors

FindResult(exc, dev, intNum, cfg) ==
    [exc |-> exc, dev |-> dev, intNum |-> intNum, configured |-> cfg]

\* lines 67-87: set_configuration, then the first interface entry that has
\* the alternate setting
Bind(dev, altsetting, cfgFails) ==
    IF cfgFails THEN FindResult(USBError, dev, 0, FALSE)
    ELSE LET hits == {i \in 1..Len(dev.alts) : altsetting \in dev.alts[i]}
         IN  IF hits = {} THEN FindResult(NoAltError, dev, 0, TRUE)
             ELSE FindResult("none", dev,
                             (CHOOSE i \in hits : \A j \in hits : i <= j) - 1,
                             TRUE)

\* variant: up to two eligible devices tolerated
DFUDeviceFindLax(altsetting, ser, dev, devs, cfgFails) ==
    IF dev # NoDevice THEN Bind(dev, altsetting, cfgFails)
    ELSE IF devs.isNone THEN FindResult(NotFoundError, NoDevice, 0, FALSE)
    ELSE LET eligible == Eligible(devs, ser)
         IN  IF Len(eligible) > 2
             THEN FindResult(NonUniqueDeviceError, NoDevice, 0, FALSE)
             ELSE IF Len(eligible) = 0
             THEN FindResult(NotFoundError, NoDevice, 0, FALSE)
             ELSE Bind(eligible[1], altsetting, cfgFails)

\* DFUDevice.find(altsetting, ser, dev) on the enumeration devs
DFUDeviceFind(altsetting, ser, dev, devs, cfgFails) ==
    IF dev # NoDevice THEN Bind(dev, altsetting, cfgFails)
    ELSE IF devs.isNone THEN FindResult(NotFoundError, NoDevice, 0, FALSE)
    ELSE LET eligible == Eligible(devs, ser)
         IN  IF Len(eligible) > 1
             THEN FindResult(NonUniqueDeviceError, NoDevice, 0, FALSE)
             ELSE IF Len(eligible) = 0
             THEN FindResult(NotFoundError, NoDevice, 0, FALSE)
             ELSE Bind(eligible[1], altsetting, cfgFails)

\* find(dfu_serial, attempts, raw_device, altsetting) called by the caller
FindCall ==
    /\ pc = "idle"
    /\ op' = "find"
    /\ \E n \in 0..MaxAttempts, ser \in {None, "A"},
          raw \in {NoDevice, [serial |-> "B", alts |-> <<{0}, {0, 1}>>]},
          alt \in {0, 1} :
        args' = [NoArgs EXCEPT !.attempts = n, !.ser = ser, !.raw = raw,
                               !.alt = alt]
    /\ pc' = "find_loop"
    /\ fi' = 0
    /\ UNCHANGED <<stack, result, retval, last, gsVars, bosVars, xfer, log,
                   blk, enumCount, findSleeps, allZero, sawMulti, configured,
                   lastEnum, picked, faDevs, fai, sessions, trVars, devVars,
                   obVars>>

\* one iteration of the loop of find: dfu.find(...), return dfu, or
\* except RuntimeError: time.sleep(0.25)
FindAttempt ==
    /\ pc = "find_loop"
    /\ fi < args.attempts
    /\ \E devs \in Enumerations, cfgFails \in BOOLEAN :
        LET r == DFUDeviceFind(args.alt, args.ser, args.raw, devs, cfgFails)
            n == Len(Eligible(devs, args.ser))
        IN  /\ enumCount' = IF args.raw = NoDevice THEN enumCount + 1 ELSE enumCount
            /\ allZero' = (allZero /\ args.raw = NoDevice /\ n = 0)
            /\ sawMulti' = (sawMulti \/ (args.raw = NoDevice /\ n > 1))
            /\ configured' = IF r.configured
                             THEN configured \cup {<<fi, r.dev>>}
                             ELSE configured
            /\ lastEnum' = IF args.raw = NoDevice THEN devs ELSE lastEnum
            /\ picked' = r.dev
            /\ IF r.exc = "none"
               THEN /\ Finish([dev |-> r.dev, intNum |-> r.intNum])
                    /\ UNCHANGED <<fi, findSleeps>>
               ELSE IF CaughtByFind(r.exc)
               THEN /\ findSleeps' = findSleeps + 1
                    /\ fi' = fi + 1
                    /\ UNCHANGED <<pc, stack, result, retval>>
               ELSE /\ Raise(r.exc)
                    /\ UNCHANGED <<fi, findSleeps>>
    /\ UNCHANGED <<op, args, last, gsVars, bosVars, xfer, log, blk, faDevs, fai,
                   sessions, trVars, devVars, obVars>>

\* variant: a device that cannot be resolved is skipped by find_all
FindExhaustedSkipped ==
    /\ pc = "find_loop"
    /\ ~(fi < args.attempts)
    /\ IF stack = <<>>
       THEN /\ Raise(NoDFUFound)
            /\ fai' = fai
       ELSE /\ pc' = "fa_loop"
            /\ stack' = Tail(stack)
            /\ fai' = fai + 1
            /\ UNCHANGED <<result, retval>>
    /\ UNCHANGED <<op, args, last, gsVars, bosVars, xfer, log, blk, fi,
                   enumCount, findSleeps, allZero, sawMulti, configured,
                   lastEnum, picked, faDevs, sessions, trVars, devVars,
                   obVars>>

\* the loop ends: raise Exception("no DFU found")
FindExhausted ==
    /\ pc = "find_loop"
    /\ ~(fi < args.attempts)
    /\ Raise(NoDFUFound)
    /\ UNCHANGED <<op, args, last, gsVars, bosVars, xfer, log, blk, findVars,
                   trVars, devVars, obVars>>

(***************************************************************************)
(* find_all (dfu.py 258-263).  A lone usb.core.Device returned by          *)
(* usb.core.find is wrapped in a list: it is the enumeration of length 1.  *)
(***************************************************************************)
\* defaults of find: attempts = 8, altsetting = 1
DefaultAttempts == 8
DefaultAltsetting == 1

\* st_dfus = usb.core.find(...); if st_dfus is None: return []
FindAllCall ==
    /\ pc = "idle"
    /\ op' = "find_all"
    /\ \E devs \in Enumerations :
        /\ faDevs' = devs
        /\ IF devs.isNone
           THEN Finish(<<>>)
           ELSE /\ pc' = "fa_loop"
                /\ UNCHANGED <<stack, result, retval>>
    /\ UNCHANGED <<args, last, gsVars, bosVars, xfer, log, blk, fi, enumCount,
                   findSleeps, allZero, sawMulti, configured, lastEnum, picked,
                   fai, sessions, trVars, devVars, obVars>>

\* the comprehension: find(raw_device=st_dfu) for the next device, or the
\* list is complete
FindAllNext ==
    /\ pc = "fa_loop"
    /\ IF fai < Len(faDevs.list)
       THEN /\ args' = [NoArgs EXCEPT !.attempts = DefaultAttempts,
                                      !.ser = None,
                                      !.raw = faDevs.list[fai + 1],
                                      !.alt = DefaultAltsetting]
            /\ fi' = 0
            /\ Call("find_loop", "fa_got")
            /\ UNCHANGED <<result, retval>>
       ELSE /\ Finish(sessions)
            /\ UNCHANGED <<args, fi>>
    /\ UNCHANGED <<op, last, gsVars, bosVars, xfer, log, blk, enumCount,
                   findSleeps, allZero, sawMulti, configured, lastEnum, picked,
                   faDevs, fai, sessions, trVars, devVars, obVars>>

\* find has returned a session: it is the next element of the list
FindAllGot ==
    /\ pc = "fa_got"
    /\ sessions' = Append(sessions, retval)
    /\ fai' = fai + 1
    /\ pc' = "fa_loop"
    /\ UNCHANGED <<stack, op, args, result, retval, last, gsVars, bosVars, xfer,
                   log, blk, fi, enumCount, findSleeps, allZero, sawMulti,
                   configured, lastEnum, picked, faDevs, trVars, devVars,
                   obVars>>

(***************************************************************************)
(* The address translator applied to bounded inputs.                       *)
(***************************************************************************)
\* (address, transferSize) pairs with address >= FlashBase, transferSize > 0
TranslatorInputs ==
    {<<FlashBase + off, size>> : off \in 0..MaxOffset, size \in 1..MaxSize}
        \cup {<<FlashBase + 16384, 2048>>}

\* addr2block(address, transferSize)
TranslateCall ==
    /\ pc = "idle"
    /\ op' = "translate"
    /\ \E in \in TranslatorInputs :
        /\ args' = [NoArgs EXCEPT !.addr = in[1], !.size = in[2]]
        /\ tBlock' = addr2block(in[1], in[2])
    /\ pc' = "tr_back"
    /\ UNCHANGED <<stack, result, retval, last, gsVars, bosVars, xfer, log,
                   blk, findVars, tBack, devVars, obVars>>

\* block2addr(block, transferSize) on the block just computed
TranslateBack ==
    /\ pc = "tr_back"
    /\ tBack' = block2addr(tBlock, args.size)
    /\ Finish(tBack')
    /\ UNCHANGED <<op, args, last, gsVars, bosVars, xfer, log, blk, findVars,
                   tBlock, devVars, obVars>>

(***************************************************************************)
(* The caller starts over with the next operation.                         *)
(***************************************************************************)
Again ==
    /\ pc = "done"
    /\ pc' = "idle"
    /\ stack' = <<>>
    /\ op' = "none"
    /\ args' = NoArgs
    /\ result' = "none"
    /\ retval' = "none"
    /\ last' = NoStatus
    /\ tries' = 0
    /\ gsXfers' = 0
    /\ gsSleeps' = 0
    /\ bosTarget' = "none"
    /\ polls' = <<>>
    /\ sleeps' = <<>>
    /\ xfer' = NoXfer
    /\ log' = <<>>
    /\ blk' = 0
    /\ fi' = 0
    /\ enumCount' = 0
    /\ findSleeps' = 0
    /\ allZero' = TRUE
    /\ sawMulti' = FALSE
    /\ configured' = {}
    /\ lastEnum' = NoEnum
    /\ picked' = NoDevice
    /\ faDevs' = NoEnum
    /\ fai' = 0
    /\ sessions' = <<>>
    /\ tBlock' = 0
    /\ tBack' = 0
    /\ mem' = InitMem
    /\ ptr' = FlashBase
    /\ pend' = NoPending
    /\ uploads' = <<>>
    /\ m' = <<>>
    /\ wobCalls' = <<>>
    /\ swallowed' = <<>>
    /\ fault' = NoFault
    /\ ptr0' = FlashBase

Next ==
    \/ GetStatusOk \/ GetStatusStallRetry \/ GetStatusStallFatal
    \/ GetStatusOtherError \/ GetStatusReturn
    \/ TransferOk \/ TransferError
    \/ BlockOnStateLoop \/ BlockOnStateReturn
    \/ GetStatusCall \/ GetStatusDone
    \/ BlockOnStateCall \/ BlockOnStateDone
    \/ SetAddrCall \/ SetAddrReturn
    \/ EraseCall \/ EraseReturn
    \/ MassEraseCall \/ MassEraseBlock \/ MassEraseState \/ MassEraseAssert
    \/ WritePageCall \/ WritePageCheck1 \/ WritePageClear2 \/ WritePageState2
    \/ WritePageCheck2 \/ WritePageBlock \/ WritePageState3 \/ WritePageAssert
    \/ ReadMemCall \/ ReadMemZeroSize \/ ReadMemCheck1 \/ ReadMemClear2
    \/ ReadMemState2 \/ ReadMemCheck2 \/ ReadMemReturn
    \/ RobCall \/ RobBlock \/ RobRead \/ RobReturn
    \/ WobCall \/ WobEntry \/ WobWrite \/ WobPoll \/ WobReturn \/ WobExcept
    \/ RobAfterWob
    \/ PbdCall \/ PbdRewrite \/ PbdRead \/ PbdDecide \/ PbdReturn
    \/ DetachCall \/ DetachCheck1 \/ DetachClear2 \/ DetachState2
    \/ DetachCheck2 \/ DetachStatus \/ DetachReturn
    \/ FindCall \/ FindAttempt \/ FindExhausted
    \/ FindAllCall \/ FindAllNext \/ FindAllGot
    \/ TranslateCall \/ TranslateBack
    \/ Again

Spec == Init /\ [][Next]_vars

(***************************************************************************)
(* The polling operations alone, with the driver thread taking its next    *)
(* step whenever it has one: every ctrl_transfer returns or raises.        *)
(***************************************************************************)
LiveNext ==
    \/ GetStatusOk \/ GetStatusStallRetry \/ GetStatusStallFatal
    \/ GetStatusOtherError \/ GetStatusReturn
    \/ TransferOk \/ TransferError
    \/ BlockOnStateLoop \/ BlockOnStateReturn
    \/ BlockOnStateCall \/ BlockOnStateDone
    \/ MassEraseCall \/ MassEraseBlock \/ MassEraseState \/ MassEraseAssert
    \/ WritePageCall \/ WritePageCheck1 \/ WritePageClear2 \/ WritePageState2
    \/ WritePageCheck2 \/ WritePageBlock \/ WritePageState3 \/ WritePageAssert
    \/ Again

LiveSpec == Init /\ [][LiveNext]_vars /\ WF_vars(LiveNext)

(***************************************************************************)
(* Helpers of the properties.                                              *)
(***************************************************************************)
LastEntry == log[Len(log)]

\* the operations that check the state before their data transfer
Checked == {"write_page", "read_mem", "detach"}

\* the states valid for the running operation
ValidFor(o) == IF o = "read_mem" THEN UploadValid ELSE DownloadValid

\* the data transfer of the running operation
DataReq(o) == IF o = "read_mem" THEN "UPLOAD" ELSE "DNLOAD"

\* positions of the DNLOAD entries of the log
DnloadAt == {i \in 1..Len(log) : log[i].req = "DNLOAD"}

\* the status queries answered after the DNLOAD of write_page / mass_erase
AfterDnload ==
    IF DnloadAt = {} THEN <<>>
    ELSE LET d == CHOOSE i \in DnloadAt : TRUE
         IN  SubSeq(log, d + 1, Len(log))

\* positions in AfterDnload of the answers other than DOWNLOAD_BUSY
NotBusyAt == {i \in 1..Len(AfterDnload) : AfterDnload[i].state # DOWNLOAD_BUSY}

\* block_on_state has returned and the status query after it was answered
PostQueryAnswered ==
    /\ NotBusyAt # {}
    /\ Len(AfterDnload) > (CHOOSE i \in NotBusyAt : \A j \in NotBusyAt : i <= j)

(***************************************************************************)
(* C1: in write_page and mass_erase, when the status query that follows    *)
(* block_on_state(DOWNLOAD_BUSY) reports a state other than DOWNLOAD_IDLE  *)
(* the operation ends with the assertion failure and never returns         *)
(* normally; whenever the operation returns normally, its last status      *)
(* query reported DOWNLOAD_IDLE.                                           *)
(***************************************************************************)
C1_PostCondition ==
    op \in {"write_page", "mass_erase"} =>
        /\ (pc = "done" /\ result = "ok") =>
              /\ log # <<>>
              /\ LastEntry.req = "GETSTATUS"
              /\ LastEntry.state = DOWNLOAD_IDLE
              /\ PostQueryAnswered
        /\ (PostQueryAnswered /\ LastEntry.state # DOWNLOAD_IDLE) =>
              /\ pc \in {"gs_break", "wp_assert", "me_assert", "done"}
              /\ pc = "done" => result = AssertionError

C1_Witness ==
    /\ op = "write_page"
    /\ pc = "done"
    /\ result = AssertionError
    /\ PostQueryAnswered
    /\ LastEntry.state = ERROR

(***************************************************************************)
(* C2 as stated: an erase that returns normally has polled the status      *)
(* after its DNLOAD and has seen DOWNLOAD_IDLE last.                       *)
(***************************************************************************)
C2_EraseWaits ==
    (op = "erase" /\ pc = "done" /\ result = "ok") =>
        /\ AfterDnload # <<>>
        /\ LastEntry.req = "GETSTATUS"
        /\ LastEntry.state = DOWNLOAD_IDLE

(***************************************************************************)
(* C2 amended: erase(address) issues one transfer only, the DNLOAD of      *)
(* block 0 with payload 0x41 followed by the four little-endian bytes of   *)
(* the address, and returns when that transfer returns: it makes no status *)
(* query at all; a transport error of the DNLOAD ends it with that error.  *)
(***************************************************************************)
C2_EraseOnlyDownloads ==
    op = "erase" =>
        /\ Len(log) <= 1
        /\ \A i \in 1..Len(log) :
              /\ log[i].req = "DNLOAD"
              /\ log[i].block = 0
              /\ Len(log[i].data) = 5
              /\ log[i].data[1] = 65
              /\ \A j \in 2..5 : log[i].data[j] \in 0..255
              /\ log[i].data[2] + 256 * log[i].data[3] + 65536 * log[i].data[4]
                    + 16777216 * log[i].data[5] = args.addr
        /\ pc = "done" =>
              \/ result = "ok" /\ Len(log) = 1
              \/ result = USBError /\ log = <<>>

C2_Witness ==
    /\ op = "erase"
    /\ pc = "done"
    /\ result = "ok"
    /\ args.addr = FlashBase + 2049
    /\ log = <<Entry("DNLOAD", 0, <<65, 1, 8, 0, 8>>, "none")>>

(***************************************************************************)
(* C3: write_page, read_mem and detach issue their DNLOAD / UPLOAD only    *)
(* right after a status query that reported a state valid for the          *)
(* operation; when the state is still invalid after the two clear-status   *)
(* transfers the operation ends with the state error and issues nothing    *)
(* more.                                                                   *)
(***************************************************************************)
C3_TransferOnlyWhenValid ==
    op \in Checked =>
        /\ \A i \in 1..Len(log) :
              log[i].req \in {"DNLOAD", "UPLOAD"} =>
                  /\ log[i].req = DataReq(op)
                  /\ i > 1
                  /\ log[i - 1].req = "GETSTATUS"
                  /\ log[i - 1].state \in ValidFor(op)
        /\ pc \in {"dn_xfer", "up_xfer"} =>
              /\ xfer.req = DataReq(op)
              /\ log # <<>>
              /\ LastEntry.req = "GETSTATUS"
              /\ LastEntry.state \in ValidFor(op)
        /\ ( /\ Len(log) >= 4
             /\ log[2].req = "CLRSTATUS"
             /\ log[3].req = "CLRSTATUS"
             /\ log[4].state \notin ValidFor(op) ) =>
              /\ Len(log) = 4
              /\ pc \in {"gs_break", "wp_check2", "rm_check2", "dt_check2", "done"}
              /\ pc = "done" => result = StateError

C3_Witness ==
    /\ op = "read_mem"
    /\ pc = "done"
    /\ result = StateError
    /\ Len(log) = 4
    /\ log[1].state = ERROR
    /\ log[3].req = "CLRSTATUS"
    /\ log[4].state = ERROR

(***************************************************************************)
(* C4 as stated: a clear-status transfer is issued only when the state     *)
(* observed first is ERROR.                                                *)
(***************************************************************************)
C4_ClearOnlyOnError ==
    op \in Checked =>
        ((pc = "clr_xfer" \/ \E i \in 1..Len(log) : log[i].req = "CLRSTATUS")
            => log[1].state = ERROR)

(***************************************************************************)
(* C4 amended: in the precondition check of write_page, read_mem and       *)
(* detach clear-status transfers are issued exactly when the state         *)
(* observed first is invalid for the operation, whatever that state is     *)
(* (ERROR, DOWNLOAD_BUSY, ...): two are then issued one after the other    *)
(* before the second status query, never more, the second one missing      *)
(* only when the first fails; when the observed state is valid none is     *)
(* issued.                                                                 *)
(***************************************************************************)
C4_ClearWheneverInvalid ==
    op \in Checked =>
        LET clears == {i \in 1..Len(log) : log[i].req = "CLRSTATUS"}
        IN  /\ clears \subseteq {2, 3}
            /\ (pc = "clr_xfer" \/ clears # {}) =>
                  /\ log[1].req = "GETSTATUS"
                  /\ log[1].state \notin ValidFor(op)
            /\ (log # <<>> /\ log[1].state \notin ValidFor(op)) =>
                  /\ Len(log) >= 2 => log[2].req = "CLRSTATUS"
                  /\ Len(log) >= 3 => log[3].req = "CLRSTATUS"
                  /\ Len(log) >= 4 => log[4].req = "GETSTATUS"
                  /\ (Len(log) = 1 /\ pc = "done") => result = USBError
            /\ (log # <<>> /\ log[1].state \in ValidFor(op)) =>
                  /\ clears = {}
                  /\ pc # "clr_xfer"

C4_Witness ==
    /\ op = "write_page"
    /\ Len(log) >= 4
    /\ log[1].state = DOWNLOAD_BUSY
    /\ log[2].req = "CLRSTATUS"
    /\ log[3].req = "CLRSTATUS"
    /\ log[4].req = "GETSTATUS"

(***************************************************************************)
(* C5: block_on_state(target) returns at the first status that differs     *)
(* from target: when the first k statuses report target and status k+1     *)
(* does not, it has made exactly k+1 status queries and k sleeps, sleep i  *)
(* lasting the poll timeout of status i, and no other transfer.            *)
(***************************************************************************)
C5_BlockOnState ==
    bosTarget # "none" =>
        LET k == Len(sleeps)
            n == Len(polls)
        IN  /\ \A i \in 1..n : i < n => polls[i].state = bosTarget
            /\ \A i \in 1..k : /\ i <= n
                               /\ polls[i].state = bosTarget
                               /\ sleeps[i] = 1000 * polls[i].timeout
            /\ pc = "bos_exit" =>
                  /\ n = k + 1
                  /\ polls[n].state # bosTarget
                  /\ polls[n] = last
                  /\ Logged("GETSTATUS") =>
                        /\ Len(log) >= n
                        /\ \A i \in 1..n :
                              /\ log[Len(log) - n + i].req = "GETSTATUS"
                              /\ log[Len(log) - n + i].state = polls[i].state
                  /\ op = "block_on_state" => Len(log) = n

C5_Witness ==
    /\ op = "block_on_state"
    /\ pc = "bos_exit"
    /\ bosTarget = DOWNLOAD_BUSY
    /\ Len(polls) = 3
    /\ polls[1] = [state |-> DOWNLOAD_BUSY, timeout |-> 1]
    /\ polls[2] = [state |-> DOWNLOAD_BUSY, timeout |-> 5]
    /\ polls[3].state = DOWNLOAD_IDLE
    /\ sleeps = <<1000, 5000>>
    /\ Len(log) = 3

(***************************************************************************)
(* C6: get_status retries a stalled GETSTATUS at most 3 times, sleeping    *)
(* before each retry: when every transfer stalls it has issued exactly 4   *)
(* transfers when it fails; a transfer that succeeds ends it with that     *)
(* status and no further transfer; an error other than a stall ends it at  *)
(* once.                                                                   *)
(***************************************************************************)
C6_StallRetries ==
    /\ gsXfers <= 4
    /\ gsSleeps <= 3
    /\ pc = "gs_xfer" => gsSleeps = gsXfers
    /\ pc = "gs_break" =>
          /\ gsSleeps = gsXfers - 1
          /\ Logged("GETSTATUS") =>
                /\ LastEntry.req = "GETSTATUS"
                /\ LastEntry.state = last.state
    /\ (pc = "done" /\ result = StatusError) =>
          /\ gsXfers = 4
          /\ gsSleeps = 3
    /\ (pc = "done" /\ result = USBError /\ gsXfers > 0) =>
          gsSleeps = gsXfers - 1
    /\ (op = "get_status" /\ pc = "done") =>
          /\ result \in {"ok", StatusError, USBError}
          /\ result = "ok" =>
                /\ retval = last
                /\ Len(log) = 1
                /\ log[1].state = last.state
          /\ result # "ok" => log = <<>>

C6_Witness ==
    /\ op = "get_status"
    /\ pc = "done"
    /\ result = StatusError
    /\ gsXfers = 4
    /\ gsSleeps = 3

(***************************************************************************)
(* C7: find(attempts = n) that sees no eligible device at any enumeration  *)
(* enumerates exactly n times, sleeps after each failed attempt and then   *)
(* fails with "no DFU found"; find never enumerates more than n times.     *)
(***************************************************************************)
C7_FindNotFound ==
    op = "find" =>
        /\ enumCount <= args.attempts
        /\ (args.raw = NoDevice /\ allZero) =>
              /\ result # "ok"
              /\ pc = "find_loop" => (enumCount = fi /\ findSleeps = fi)
              /\ pc = "done" =>
                    /\ result = NoDFUFound
                    /\ enumCount = args.attempts
                    /\ findSleeps = args.attempts

C7_Witness ==
    /\ op = "find"
    /\ pc = "done"
    /\ args.raw = NoDevice
    /\ args.attempts = 3
    /\ allZero
    /\ enumCount = 3
    /\ findSleeps = 3
    /\ result = NoDFUFound

(***************************************************************************)
(* C8: a find that sees more than one eligible device in an enumeration    *)
(* ends there with NonUniqueDeviceError: no sleep, no further enumeration, *)
(* no device configured or returned in that attempt, never "no DFU found". *)
(***************************************************************************)
C8_NonUniqueIsImmediate ==
    (op = "find" /\ sawMulti) =>
        /\ pc = "done"
        /\ result = NonUniqueDeviceError
        /\ enumCount = fi + 1
        /\ findSleeps = fi
        /\ \A c \in configured : c[1] # fi

C8_Witness ==
    /\ op = "find"
    /\ sawMulti
    /\ args.ser = None
    /\ args.attempts = 3
    /\ enumCount = 1
    /\ findSleeps = 0
    /\ configured = {}
    /\ result = NonUniqueDeviceError

(***************************************************************************)
(* C9 as stated: block2addr(addr2block(address, size), size) = address for *)
(* every address >= 0x08000000 and size > 0.                               *)
(***************************************************************************)
C9_RoundTripAlways ==
    (op = "translate" /\ pc = "done") => tBack = args.addr

(***************************************************************************)
(* C9 amended: the round trip returns the address when address - 0x08000000*)
(* is a multiple of size; otherwise it returns the start of the block that *)
(* holds the address.                                                      *)
(***************************************************************************)
C9_RoundTripAligned ==
    (op = "translate" /\ pc = "done") =>
        /\ ((args.addr - FlashBase) % args.size = 0) => tBack = args.addr
        /\ tBack <= args.addr
        /\ args.addr - tBack < args.size
        /\ (tBack - FlashBase) % args.size = 0

C9_Witness ==
    /\ op = "translate"
    /\ pc = "done"
    /\ args.size = 2
    /\ args.addr = FlashBase + 4
    /\ tBack = args.addr

(***************************************************************************)
(* C10: addr2block(address, size) is the truncated quotient of             *)
(* address - 0x08000000 by size, plus 2, hence at least 2;                 *)
(* addr2block(0x08004000, 2048) = 10.                                      *)
(***************************************************************************)
C10_Addr2Block ==
    (op = "translate" /\ pc \in {"tr_back", "done"}) =>
        LET q == tBlock - 2
            d == args.addr - FlashBase
        IN  /\ tBlock >= 2
            /\ q * args.size <= d
            /\ d < (q + 1) * args.size
            /\ (d = 16384 /\ args.size = 2048) => tBlock = 10

C10_Witness ==
    /\ op = "translate"
    /\ pc = "tr_back"
    /\ args.addr = 134234112
    /\ args.size = 2048
    /\ tBlock = 10

(***************************************************************************)
(* C16: a detach that returns normally has issued, after the status query  *)
(* of its precondition check found IDLE or DOWNLOAD_IDLE, exactly one      *)
(* DNLOAD, of block 0 with an empty payload, and after it exactly one      *)
(* status query, whose decoded status is the value returned; at no point   *)
(* of a detach is there an UPLOAD or a second DNLOAD.                      *)
(***************************************************************************)
C16_Detach ==
    op = "detach" =>
        /\ \A i \in 1..Len(log) : log[i].req # "UPLOAD"
        /\ Cardinality({i \in 1..Len(log) : log[i].req = "DNLOAD"}) <= 1
        /\ (pc = "done" /\ result = "ok") =>
            LET n == Len(log)
            IN  /\ n >= 4
                /\ log[n - 2].req = "GETSTATUS"
                /\ log[n - 2].state \in DownloadValid
                /\ log[n - 1] = Entry("DNLOAD", 0, <<>>, "none")
                /\ log[n].req = "GETSTATUS"
                /\ retval = last
                /\ log[n].state = retval.state
                /\ \A i \in 1..(n - 2) :
                      log[i].req \in {"GETSTATUS", "CLRSTATUS"}

C16_Witness ==
    /\ op = "detach"
    /\ pc = "done"
    /\ result = "ok"
    /\ Len(log) = 6
    /\ log[2].req = "CLRSTATUS"
    /\ retval.state = ERROR

(***************************************************************************)
(* C15: with a serial filter, the devices of an enumeration that count are *)
(* exactly those whose serial string equals the requested one.  After an   *)
(* attempt: if exactly one enumerated device has the serial, that device   *)
(* is the one bound and the result is not NonUniqueDeviceError; if none    *)
(* has it, nothing is bound, the attempt is retried after a sleep and the  *)
(* call can only end with "no DFU found"; if two or more have it, the call *)
(* ends at once with NonUniqueDeviceError and nothing is bound.            *)
(***************************************************************************)
Matching == {i \in 1..Len(lastEnum.list) : lastEnum.list[i].serial = args.ser}

C15_SerialFilter ==
    (op = "find" /\ args.ser # None /\ args.raw = NoDevice /\ enumCount > 0) =>
        /\ Cardinality(Matching) = 1 =>
            /\ picked = lastEnum.list[CHOOSE i \in Matching : TRUE]
            /\ result # NonUniqueDeviceError
            /\ result = "ok" => retval.dev = picked
        /\ Cardinality(Matching) = 0 =>
            /\ picked = NoDevice
            /\ fi = enumCount
            /\ findSleeps = enumCount
            /\ pc = "find_loop" \/ (pc = "done" /\ result = NoDFUFound)
        /\ Cardinality(Matching) >= 2 =>
            /\ picked = NoDevice
            /\ pc = "done"
            /\ result = NonUniqueDeviceError

C15_Witness ==
    /\ op = "find"
    /\ args.ser = "A"
    /\ Len(lastEnum.list) = 2
    /\ lastEnum.list[1].serial = "B"
    /\ lastEnum.list[2].serial = "A"
    /\ result = "ok"
    /\ retval.dev = lastEnum.list[2]

(***************************************************************************)
(* C19: in read_option_bytes the first transfer is the set-address         *)
(* DNLOAD: block 0, payload 0x21 and the bytes 00 78 FF 1F of 0x1FFF7800;  *)
(* there is no other DNLOAD; the UPLOAD asks for 16 bytes, is the last     *)
(* transfer, comes after at least one status query that followed the       *)
(* DNLOAD, and is issued only when the most recent status query showed a   *)
(* state other than DOWNLOAD_BUSY; a normal return has made the UPLOAD.    *)
(***************************************************************************)
C19_ReadOptionBytesOrder ==
    op = "read_option_bytes" =>
        LET n == Len(log)
            queried == \E j \in 2..n : log[j].req = "GETSTATUS"
        IN  /\ n >= 1 =>
                log[1] = Entry("DNLOAD", 0, <<33, 0, 120, 255, 31>>, "none")
            /\ \A i \in 2..n : log[i].req # "DNLOAD"
            /\ \A i \in 1..n : log[i].req = "UPLOAD" =>
                /\ i = n
                /\ log[i].data = <<16>>
                /\ log[i - 1].req = "GETSTATUS"
                /\ log[i - 1].state # DOWNLOAD_BUSY
            /\ pc = "up_xfer" =>
                /\ queried
                /\ last.state # DOWNLOAD_BUSY
                /\ xfer.data = <<16>>
            /\ (pc = "done" /\ result = "ok") =>
                /\ log[n].req = "UPLOAD"
                /\ retval = mem[OptionAddr]

C19_Witness ==
    /\ op = "read_option_bytes"
    /\ pc = "done"
    /\ result = "ok"
    /\ Len(log) = 7
    /\ log[2].state = DOWNLOAD_BUSY
    /\ log[3].state = DOWNLOAD_BUSY
    /\ log[7].req = "UPLOAD"
    /\ retval[4] = 7
    /\ retval[5] = 17

(***************************************************************************)
(* C18: when a control transfer of erase, mass_erase, write_page,          *)
(* read_mem, read_option_bytes or detach fails with a transport error that *)
(* is not a stall of the status query, the operation is over at once: its  *)
(* result is that USBError, no transfer is pending, and the transfers      *)
(* completed are those completed before the failure (nothing is issued     *)
(* after it and the failed transfer is not issued again).                  *)
(***************************************************************************)
FatalOps ==
    {"erase", "mass_erase", "write_page", "read_mem", "read_option_bytes",
     "detach"}

C18_TransportErrorFatal ==
    (op \in FatalOps /\ fault # NoFault) =>
        /\ pc = "done"
        /\ result = USBError
        /\ stack = <<>>
        /\ xfer = NoXfer
        /\ Len(log) = fault.at

C18_Witness ==
    /\ op = "read_option_bytes"
    /\ fault.req = "UPLOAD"
    /\ fault.at = 4
    /\ result = USBError

(***************************************************************************)
(* C13: write_option_bytes catches transport errors only, and only those   *)
(* raised inside its try block.  A USBError of the page write or of the    *)
(* poll after it is caught once, the call returns normally and there is no *)
(* second DNLOAD.  A USBError of the wait before the try block ends the    *)
(* call with that USBError before any DNLOAD.  The RuntimeError of the     *)
(* state check, the RuntimeError of the exhausted stall retries and the    *)
(* AssertionError of the post-condition are never caught: the call ends    *)
(* with them.                                                              *)
(***************************************************************************)
Writes == {i \in 1..Len(log) : log[i].req = "DNLOAD"}

C13_SwallowsOnlyTransportErrors ==
    op = "write_option_bytes" =>
        /\ \A i \in 1..Len(swallowed) : swallowed[i] = USBError
        /\ Len(swallowed) <= 1
        /\ Cardinality(Writes) <= 1
        /\ pc = "wob_except" => (retval = USBError /\ fault.inTry)
        /\ (fault # NoFault /\ fault.inTry) =>
            /\ pc \in {"wob_except", "done"}
            /\ pc = "done" => (result = "ok" /\ swallowed = <<USBError>>)
        /\ (fault # NoFault /\ ~fault.inTry) =>
            /\ pc = "done"
            /\ result = USBError
            /\ swallowed = <<>>
            /\ log = <<>>
        /\ swallowed # <<>> => (fault.inTry /\ result = "ok")
        /\ (pc = "done" /\ fault = NoFault) =>
            result \in {"ok", StateError, StatusError, AssertionError}

C13_Witness ==
    /\ op = "write_option_bytes"
    /\ pc = "done"
    /\ result = "ok"
    /\ swallowed = <<USBError>>
    /\ fault.req = "GETSTATUS"
    /\ Cardinality(Writes) = 1

(***************************************************************************)
(* C11: when write_option_bytes(m) has returned normally without catching  *)
(* a transport error, m keeps the bytes 4-15 already present, and the      *)
(* read_option_bytes() that follows at once returns normally, the value    *)
(* read is m.                                                              *)
(***************************************************************************)
WroteThenRead ==
    /\ op = "read_option_bytes"
    /\ wobCalls # <<>>
    /\ swallowed = <<>>
    /\ pc = "done"
    /\ result = "ok"
    /\ SubSeq(wobCalls[1], 5, 16) = SubSeq(WobLine, 5, 16)

C11_ReadReturnsWritten == WroteThenRead => retval = wobCalls[1]

(***************************************************************************)
(* C12, as stated: in prepare_options_bytes_detach, when the word read     *)
(* from the device already has nBOOT0 set and nSWBOOT0 clear, no DNLOAD of *)
(* sixteen option bytes is made.                                           *)
(***************************************************************************)
PageWrites == {i \in 1..Len(log) : log[i].req = "DNLOAD" /\ Len(log[i].data) = 16}

\* the option bytes were read back and their word needs no change
WordAlreadySet ==
    /\ op = "prepare_options_bytes_detach"
    /\ Len(uploads) >= 2
    /\ (uploads[2][4] \div 8) % 2 = 1
    /\ (uploads[2][4] \div 4) % 2 = 0

C12_NoPageWrite ==
    WordAlreadySet => \A i \in PageWrites : log[i].data \notin OptionLines

(***************************************************************************)
(* C12, amended: when the word read already has nBOOT0 set and nSWBOOT0    *)
(* clear, no write follows the read: write_option_bytes has been called    *)
(* once only, for the defensive re-write that precedes the read, and the   *)
(* only DNLOAD of sixteen bytes is that re-write, made before the second   *)
(* UPLOAD, of the bytes the first UPLOAD returned.                         *)
(***************************************************************************)
C12_NoSecondPageWrite ==
    WordAlreadySet =>
        /\ Len(wobCalls) = 1
        /\ Cardinality(PageWrites) <= 1
        /\ \A i \in PageWrites :
            /\ log[i].data = uploads[1]
            /\ \E j \in (i + 1)..Len(log) : log[j].req = "UPLOAD"
        /\ pc = "done" => result = "ok"

C12_Witness ==
    /\ WordAlreadySet
    /\ pc = "done"
    /\ result = "ok"
    /\ ptr0 = OptionAddr
    /\ swallowed = <<>>
    /\ Cardinality(PageWrites) = 1
    /\ log[2].data \in OptionLines

(***************************************************************************)
(* C17: in prepare_options_bytes_detach the first write_option_bytes call  *)
(* (the defensive re-write) is passed exactly the 16 bytes the first       *)
(* UPLOAD returned.  A second call is made only after the option bytes     *)
(* were read back and only if setting bit 27 and clearing bit 26 changes   *)
(* their word; it is passed bytes 0-2 and 4-15 as read and byte 3 with bit *)
(* 3 set and bit 2 cleared (bits 27 and 26 of the little-endian word), its *)
(* other bits as read.  A run that returns normally has made the second    *)
(* call if and only if the word needed the change.                         *)
(***************************************************************************)
\* byte 3 of the word after op |= nBOOT0; op &= ~nSWBOOT0
Byte3Set(b) ==
    b + (IF (b \div 8) % 2 = 0 THEN 8 ELSE 0) - (IF (b \div 4) % 2 = 1 THEN 4 ELSE 0)

C17_SecondWrite ==
    op = "prepare_options_bytes_detach" =>
        /\ Len(wobCalls) <= 2
        /\ Len(wobCalls) >= 1 => wobCalls[1] = uploads[1]
        /\ Len(wobCalls) = 2 =>
            /\ Len(uploads) = 2
            /\ wobCalls[2] # uploads[2]
            /\ Len(wobCalls[2]) = 16
            /\ \A i \in (1..16) \ {4} : wobCalls[2][i] = uploads[2][i]
            /\ wobCalls[2][4] = Byte3Set(uploads[2][4])
        /\ (pc = "done" /\ result = "ok") =>
            /\ Len(uploads) = 2
            /\ Len(wobCalls) = 2 <=> Byte3Set(uploads[2][4]) # uploads[2][4]

C17_Witness ==
    /\ op = "prepare_options_bytes_detach"
    /\ pc = "done"
    /\ result = "ok"
    /\ Len(wobCalls) = 2
    /\ uploads[2][4] = 7
    /\ wobCalls[2][4] = 11
    /\ mem[OptionAddr] = wobCalls[2]

(***************************************************************************)
(* C14: find_all resolves the enumerated devices one by one, in order,     *)
(* each through find with no serial filter.  When it returns, the list has *)
(* one session per enumerated device, the i-th bound to the i-th device    *)
(* (the empty list when usb.core.find gave None or no device); otherwise   *)
(* it ends with the error of the device that could not be resolved.  A     *)
(* device is never passed over: the list built so far always covers all    *)
(* the devices already handled.                                            *)
(***************************************************************************)
C14_FindAll ==
    op = "find_all" =>
        /\ Len(sessions) = fai
        /\ fai <= Len(faDevs.list)
        /\ \A i \in 1..Len(sessions) : sessions[i].dev = faDevs.list[i]
        /\ args.ser = None
        /\ (pc = "done" /\ result = "ok") =>
            /\ Len(retval) = Len(faDevs.list)
            /\ \A i \in 1..Len(retval) :
                /\ retval[i].dev = faDevs.list[i]
                /\ DefaultAltsetting \in retval[i].dev.alts[retval[i].intNum + 1]
        /\ (pc = "done" /\ result # "ok") =>
            /\ result \in {NoDFUFound, USBError}
            /\ fai < Len(faDevs.list)

C14_Witness ==
    /\ op = "find_all"
    /\ pc = "done"
    /\ result = "ok"
    /\ Len(retval) = 2
    /\ retval[1].dev.serial = "B"
    /\ retval[2].dev.serial = "A"
    /\ retval[1].intNum = 1

(***************************************************************************)
(* C20: when the device reports the awaited state DOWNLOAD_BUSY only       *)
(* finitely often (at most MaxPolls times per block_on_state), every       *)
(* block_on_state, write_page and mass_erase that has started ends, with a *)
(* return or an exception.  The loop itself has no cap: whenever the       *)
(* status just read shows the awaited state, the next step of the driver   *)
(* is a sleep and another status query, the operation has neither returned *)
(* nor failed, and no other transfer is prepared.                          *)
(***************************************************************************)
PollingOps == {"block_on_state", "write_page", "mass_erase"}

StillAwaited == pc = "bos_loop" /\ last.state = bosTarget

PollsAgain ==
    /\ pc' = "gs_xfer"
    /\ Head(stack') = "bos_loop"
    /\ Len(sleeps') = Len(sleeps) + 1
    /\ result' = "none"
    /\ xfer' = NoXfer
    /\ log' = log

C20_PollingTerminates ==
    /\ (op \in PollingOps) ~> (pc = "done")
    /\ [][StillAwaited => PollsAgain]_vars

C20_Witness ==
    /\ op = "mass_erase"
    /\ pc = "bos_exit"
    /\ Len(sleeps) = 2
    /\ polls[1].state = DOWNLOAD_BUSY
    /\ polls[2].state = DOWNLOAD_BUSY
    /\ polls[3].state = DOWNLOAD_IDLE

(***************************************************************************)
(* C21: blocks 0 and 1 are reserved for control operations.                *)
(***************************************************************************)
\* the transfer about to be sent is the DNLOAD of write_page or the UPLOAD of
\* read_mem
PageTransfer ==
    \/ pc = "dn_xfer" /\ Head(stack) = "wp_block"
    \/ pc = "up_xfer"

\* the operations that call write_page / read_mem themselves
OwnCallOps == {"read_option_bytes", "write_option_bytes",
               "prepare_options_bytes_detach"}

\* where dnload returns to when set_addr, erase, mass_erase or detach called it
ControlOwners == {"sa_ret", "rob_block", "er_ret", "me_block", "dt_status"}

\* a caller's write_page / read_mem of an address below the flash base
CallerLowPage ==
    /\ PageTransfer
    /\ op \notin OwnCallOps
    /\ args.addr < FlashBase

\* C21 as stated: every block number that write_page passes to DNLOAD and
\* read_mem passes to UPLOAD in a call the driver itself makes (those of
\* read_option_bytes, write_option_bytes and prepare_options_bytes_detach,
\* which pass address 0) is >= 2, and block 0 is used only by set_addr, erase,
\* mass_erase and detach.
C21_BlocksAtLeastTwo ==
    /\ (PageTransfer /\ op \in OwnCallOps) => xfer.block >= 2
    /\ (pc \in {"dn_xfer", "up_xfer"} /\ xfer.block = 0 /\ ~CallerLowPage)
          => (pc = "dn_xfer" /\ Head(stack) \in ControlOwners)

\* C21 amended: the block number write_page passes to DNLOAD and read_mem
\* passes to UPLOAD is >= 2 whenever the address is at or above 0x08000000;
\* in the calls the driver itself makes (address 0, 16 bytes) it is -8388606,
\* which is 2 in the 16 bits of wValue; block 0 is used only by set_addr,
\* erase, mass_erase and detach.
C21_ReservedBlocks ==
    /\ (PageTransfer /\ args.addr >= FlashBase) => xfer.block >= 2
    /\ (PageTransfer /\ op \in OwnCallOps)
          => /\ args.addr = 0
             /\ xfer.block = 0 - 8388606
             /\ xfer.block % 65536 = 2
    /\ (pc \in {"dn_xfer", "up_xfer"} /\ xfer.block = 0 /\ ~CallerLowPage)
          => (pc = "dn_xfer" /\ Head(stack) \in ControlOwners)

\* prepare_options_bytes_detach is about to download the 16 bytes it read
C21_Witness ==
    /\ op = "prepare_options_bytes_detach"
    /\ pc = "dn_xfer"
    /\ Head(stack) = "wp_block"
    /\ args.addr = 0
    /\ Len(xfer.data) = 16
    /\ xfer.block = 0 - 8388606

(***************************************************************************)
(* C22: the vendor sub-command payloads are bit-exact.                     *)
(***************************************************************************)
\* d[2..5] are four bytes, least significant first, of the address a
LittleEndian(d, a) ==
    /\ Len(d) = 5
    /\ \A j \in 2..5 : d[j] \in 0..255
    /\ d[2] + 256 * d[3] = a % 65536
    /\ d[4] + 256 * d[5] = a \div 65536
    /\ d[5] <= 127 => d[2] + 256 * d[3] + 65536 * d[4] + 16777216 * d[5] = a

\* C22: for every address a, addr2list(a) is four bytes b0..b3, each in
\* 0..255, with b0 + 256*b1 + 65536*b2 + 16777216*b3 = a; set_addr(a) issues
\* DNLOAD block 0 with payload [0x21, b0, b1, b2, b3], erase(a) issues DNLOAD
\* block 0 with payload [0x41, b0, b1, b2, b3], and mass_erase issues DNLOAD
\* block 0 with the one-byte payload [0x41].
C22_BitExactPayloads ==
    /\ (op = "set_addr" /\ pc = "dn_xfer") =>
          /\ xfer.req = "DNLOAD"
          /\ xfer.block = 0
          /\ xfer.data[1] = 33
          /\ LittleEndian(xfer.data, args.addr)
    /\ (op = "erase" /\ pc = "dn_xfer") =>
          /\ xfer.req = "DNLOAD"
          /\ xfer.block = 0
          /\ xfer.data[1] = 65
          /\ LittleEndian(xfer.data, args.addr)
    /\ (op = "mass_erase" /\ pc = "dn_xfer") =>
          /\ xfer.req = "DNLOAD"
          /\ xfer.block = 0
          /\ xfer.data = <<65>>
    /\ (op \in {"set_addr", "erase"} /\ pc = "done" /\ result = "ok") =>
          /\ Len(log) = 1
          /\ log[1].req = "DNLOAD"
          /\ log[1].block = 0
          /\ log[1].data[1] = (IF op = "set_addr" THEN 33 ELSE 65)
          /\ LittleEndian(log[1].data, args.addr)

\* set_addr(0x7FFFFFFF) has sent 21 FF FF FF 7F
C22_Witness ==
    /\ op = "set_addr"
    /\ pc = "done"
    /\ result = "ok"
    /\ args.addr = 2147483647
    /\ log = <<Entry("DNLOAD", 0, <<33, 255, 255, 255, 127>>, "none")>>

====
